---- MODULE Spec2Model ----
(***************************************************************************)
(* vscan-http-request-smuggler (src/main.py): a command-line script that   *)
(* validates a URL and runs three request-smuggling probes (CL.TE, TE.CL,  *)
(* TE.TE) through send_request, looking for the sentinel "X-Foo: bar" in   *)
(* the response body.                                                      *)
(*                                                                         *)
(* Two entry points are modelled: the script's main(), and a direct call   *)
(* of send_request(url, method, data, headers, timeout, verbose), whose    *)
(* headers argument may be None, a mapping or a string.                    *)
(*                                                                         *)
(* Python values are records of one shape:                                 *)
(*   t  the Python type, s  a str's text (CLI strings, log texts),         *)
(*   d  a dict as a set of <<key, value>> pairs, n  an int,                *)
(*   l  a response text as the sequence of its lines.                      *)
(***************************************************************************)
EXTENDS Integers, Sequences, FiniteSets, TLC

VARIABLES entry, pc, url, headersArg, verbose, probe, callHeaders, callData,
          sent, responses, ret, detectResult, exitCode, logs

vars == <<entry, pc, url, headersArg, verbose, probe, callHeaders, callData,
          sent, responses, ret, detectResult, exitCode, logs>>

(* Longest response text, in lines, that the transport returns. *)
MaxBodyLen == 2

---------------------------------------------------------------------------
(* Python values *)

PyNone == [t |-> "NoneType", s |-> "", d |-> {}, n |-> 0, l |-> <<>>]
PyStr(x) == [t |-> "str", s |-> x, d |-> {}, n |-> 0, l |-> <<>>]
PyDict(pairs) == [t |-> "dict", s |-> "", d |-> pairs, n |-> 0, l |-> <<>>]
PyInt(k) == [t |-> "int", s |-> "", d |-> {}, n |-> k, l |-> <<>>]
PyList(repr) == [t |-> "list", s |-> repr, d |-> {}, n |-> 0, l |-> <<>>]
PyText(lines) == [t |-> "str", s |-> "", d |-> {}, n |-> 0, l |-> lines]

(* Python truth value: None, "", {} and 0 are false. *)
Truthy(v) ==
    CASE v.t = "NoneType" -> FALSE
      [] v.t = "str" -> v.s # "" \/ v.l # <<>>
      [] v.t = "dict" -> v.d # {}
      [] v.t = "int" -> v.n # 0
      [] OTHER -> TRUE

Keys(pairs) == {p[1] : p \in pairs}

(* dict.update: keys of b override the same keys of a, other keys of a stay. *)
DictUpdate(a, b) == {p \in a : p[1] \notin Keys(b)} \cup b

---------------------------------------------------------------------------
(* urllib.parse.urlparse and json.loads on the inputs of the model *)

(* urlparse(u): ok is FALSE when urlparse raises ValueError. *)
urlparse(u) ==
    CASE u = "http://example.com" ->
            [ok |-> TRUE, scheme |-> "http", netloc |-> "example.com"]
      [] u = "https://example.com:8443/a" ->
            [ok |-> TRUE, scheme |-> "https", netloc |-> "example.com:8443"]
      [] u = "http://" -> [ok |-> TRUE, scheme |-> "http", netloc |-> ""]
      [] u = "//example.com" ->
            [ok |-> TRUE, scheme |-> "", netloc |-> "example.com"]
      [] u = "not a url" -> [ok |-> TRUE, scheme |-> "", netloc |-> ""]
      [] u = "http://[::1" -> [ok |-> FALSE, scheme |-> "", netloc |-> ""]
      [] OTHER -> [ok |-> TRUE, scheme |-> "", netloc |-> ""]

Urls == {"http://example.com", "https://example.com:8443/a", "http://",
         "//example.com", "not a url", "http://[::1"}

is_valid_url_any(u) ==
    LET result == urlparse(u)
    IN  IF result.ok THEN result.scheme # "" \/ result.netloc # "" ELSE FALSE

is_valid_url(u) ==
    LET result == urlparse(u)
    IN  IF result.ok THEN result.scheme # "" /\ result.netloc # "" ELSE FALSE

(* json.loads(x): ok is FALSE when it raises json.JSONDecodeError. *)
json_loads(x) ==
    CASE x = "{}" -> [ok |-> TRUE, v |-> PyDict({})]
      [] x = "{\"X-Foo\": \"bar\"}" ->
            [ok |-> TRUE, v |-> PyDict({<<"X-Foo", "bar">>})]
      [] x = "{\"Content-Length\": \"0\"}" ->
            [ok |-> TRUE, v |-> PyDict({<<"Content-Length", "0">>})]
      [] x = "{\"Transfer-Encoding\": \"identity\", \"X-A\": \"1\"}" ->
            [ok |-> TRUE,
             v |-> PyDict({<<"Transfer-Encoding", "identity">>, <<"X-A", "1">>})]
      [] x = "[1]" -> [ok |-> TRUE, v |-> PyList("[1]")]
      [] x = "null" -> [ok |-> TRUE, v |-> PyNone]
      [] OTHER -> [ok |-> FALSE, v |-> PyNone]

JsonObjects == {"{}", "{\"X-Foo\": \"bar\"}", "{\"Content-Length\": \"0\"}",
                "{\"Transfer-Encoding\": \"identity\", \"X-A\": \"1\"}"}
JsonOthers == {"[1]", "null"}
JsonMalformed == {"{bad", "X-Foo: bar"}

(* args.headers: None by default, otherwise the string given on the command line. *)
CliHeaders == {PyNone, PyStr("")} \cup
              {PyStr(x) : x \in JsonObjects \cup JsonOthers \cup JsonMalformed}

---------------------------------------------------------------------------
(* The three probes *)

Sentinel == "X-Foo: bar"

ProbeCount == 3

cl_te_headers == {<<"Content-Length", "41">>, <<"Transfer-Encoding", "chunked">>}
te_cl_headers == {<<"Transfer-Encoding", "chunked">>, <<"Content-Length", "100">>}
te_te_headers == {<<"Transfer-Encoding", "chunked, chunked">>}

FixedHeaders(p) ==
    CASE p = 1 -> cl_te_headers
      [] p = 2 -> te_cl_headers
      [] OTHER -> te_te_headers

cl_te_data == "0\r\n\r\nGET / HTTP/1.1\r\nX-Foo: bar\r\n\r\n"
te_cl_data == "5c\r\nGET / HTTP/1.1\r\nHost: example.com\r\nContent-Length: 10\r\nX-Foo: bar\r\n\r\n0\r\n\r\n"
te_te_data == "0\r\n\r\nGET / HTTP/1.1\r\nX-Foo: bar\r\n\r\n"

FixedData(p) ==
    CASE p = 1 -> cl_te_data
      [] p = 2 -> te_cl_data
      [] OTHER -> te_te_data

DetectedMsg(p) ==
    CASE p = 1 -> "Potential CL.TE HTTP Request Smuggling Vulnerability Detected!"
      [] p = 2 -> "Potential TE.CL HTTP Request Smuggling Vulnerability Detected!"
      [] OTHER -> "Potential TE.TE HTTP Request Smuggling Vulnerability Detected!"

NoVulnMsg(p) ==
    CASE p = 1 -> "CL.TE Test: No immediate vulnerability detected."
      [] p = 2 -> "TE.CL Test: No immediate vulnerability detected."
      [] OTHER -> "TE.TE Test: No immediate vulnerability detected."

(* "X-Foo: bar" in resp_text, on a text given as its lines. *)
Contains(text, needle) == \E i \in 1..Len(text) : text[i] = needle

---------------------------------------------------------------------------
(* The transport behind requests.request *)

Lines == {"ok", Sentinel}
Bodies == UNION {[1..k -> Lines] : k \in 0..MaxBodyLen}
Statuses == {200, 301, 404, 500}
ResponseHeaders == {<<"Server", "mock">>}

Outcomes ==
    [kind : {"response"}, status : Statuses, headers : {ResponseHeaders}, body : Bodies]
    \cup [kind : {"ConnectionError", "Timeout"}, status : {0}, headers : {{}},
          body : {<<>>}]

Log(level, msg) == [level |-> level, msg |-> msg]

---------------------------------------------------------------------------
(* State after start-up *)

(* headers arguments of a direct call of send_request *)
DirectHeaders ==
    {PyNone, PyStr(""), PyDict({}), PyDict(cl_te_headers), PyDict({<<"X-A", "1">>})}
    \cup {PyStr(x) : x \in JsonObjects \cup JsonOthers \cup JsonMalformed}

DirectData == {PyNone, PyStr("a=1")}

Init ==
    /\ entry \in {"main", "send_request"}
    /\ verbose \in BOOLEAN
    /\ IF entry = "main"
          THEN /\ pc = "main"
               /\ url \in Urls
               /\ headersArg \in CliHeaders
               /\ callHeaders = PyNone
               /\ callData = PyNone
          ELSE /\ pc = "send"
               /\ url = "http://example.com"
               /\ headersArg = PyNone
               /\ callHeaders \in DirectHeaders
               /\ callData \in DirectData
    /\ probe = 0
    /\ sent = <<>>
    /\ responses = <<>>
    /\ ret = <<>>
    /\ detectResult = "none"
    /\ exitCode = -1
    /\ logs = <<>>

---------------------------------------------------------------------------
(* main, lines 155-175 *)

(* main: is_valid_url fails, log the error and sys.exit(1). *)
MainInvalidUrl ==
    /\ entry = "main" /\ pc = "main"
    /\ ~is_valid_url(url)
    /\ logs' = Append(logs, Log("ERROR", "Invalid URL provided."))
    /\ exitCode' = 1
    /\ pc' = "exit"
    /\ UNCHANGED <<entry, url, headersArg, verbose, probe, callHeaders, callData,
                   sent, responses, ret, detectResult>>

(* main: the URL is valid, log the start and enter detect_http_smuggling. *)
MainStartScan ==
    /\ entry = "main" /\ pc = "main"
    /\ is_valid_url(url)
    /\ logs' = Append(logs, Log("INFO", "Starting HTTP Request Smuggling scan on"))
    /\ probe' = 1
    /\ pc' = "merge"
    /\ UNCHANGED <<entry, url, headersArg, verbose, callHeaders, callData,
                   sent, responses, ret, detectResult, exitCode>>

(* main: detect_http_smuggling returned, log the summary; the script ends, exit 0. *)
MainSummary ==
    /\ entry = "main" /\ pc = "summary"
    /\ logs' = Append(logs,
          IF detectResult = "true"
             THEN Log("INFO", "HTTP Request Smuggling scan completed. Vulnerabilities found.")
             ELSE Log("INFO", "HTTP Request Smuggling scan completed. No immediate vulnerabilities found."))
    /\ exitCode' = 0
    /\ pc' = "exit"
    /\ UNCHANGED <<entry, url, headersArg, verbose, probe, callHeaders, callData,
                   sent, responses, ret, detectResult>>

(* main's handler of an exception raised in detect_http_smuggling: log, sys.exit(1). *)
ScanRaised ==
    /\ logs' = Append(logs, Log("ERROR", "An error occurred during the scan"))
    /\ exitCode' = 1
    /\ pc' = "exit"
    /\ UNCHANGED <<probe, callHeaders, callData, detectResult>>

---------------------------------------------------------------------------
(* detect_http_smuggling, lines 72-153 *)

(* Headers of a probe: the fixed headers, updated with the parsed custom ones.      *)
(* json.loads raises JSONDecodeError (log, return False); dict.update raises       *)
(* TypeError on a parsed value that is no mapping, which reaches main.             *)
ProbeMerge_Continue ==
    /\ entry = "main" /\ pc = "merge"
    /\ IF ~Truthy(headersArg)
          THEN /\ callHeaders' = PyDict(FixedHeaders(probe))
               /\ callData' = PyStr(FixedData(probe))
               /\ pc' = "send"
               /\ UNCHANGED <<probe, detectResult, exitCode, logs>>
          ELSE LET r == json_loads(headersArg.s)
               IN  IF ~r.ok
                      THEN /\ logs' = Append(logs,
                                 Log("ERROR", "Invalid JSON format for headers"))
                           /\ IF probe < ProbeCount
                                 THEN /\ probe' = probe + 1
                                      /\ pc' = "merge"
                                      /\ UNCHANGED detectResult
                                 ELSE /\ detectResult' = "false"
                                      /\ pc' = "summary"
                                      /\ UNCHANGED probe
                           /\ UNCHANGED <<callHeaders, callData, exitCode>>
                      ELSE IF r.v.t # "dict"
                              THEN ScanRaised
                              ELSE /\ callHeaders' =
                                         PyDict(DictUpdate(FixedHeaders(probe), r.v.d))
                                   /\ callData' = PyStr(FixedData(probe))
                                   /\ pc' = "send"
                                   /\ UNCHANGED <<probe, detectResult, exitCode, logs>>
    /\ UNCHANGED <<entry, url, headersArg, verbose, sent, responses, ret>>

ProbeMerge ==
    /\ entry = "main" /\ pc = "merge"
    /\ IF ~Truthy(headersArg)
          THEN /\ callHeaders' = PyDict(FixedHeaders(probe))
               /\ callData' = PyStr(FixedData(probe))
               /\ pc' = "send"
               /\ UNCHANGED <<probe, detectResult, exitCode, logs>>
          ELSE LET r == json_loads(headersArg.s)
               IN  IF ~r.ok
                      THEN /\ logs' = Append(logs,
                                 Log("ERROR", "Invalid JSON format for headers"))
                           /\ detectResult' = "false"
                           /\ pc' = "summary"
                           /\ UNCHANGED <<probe, callHeaders, callData, exitCode>>
                      ELSE IF r.v.t # "dict"
                              THEN ScanRaised
                              ELSE /\ callHeaders' =
                                         PyDict(DictUpdate(FixedHeaders(probe), r.v.d))
                                   /\ callData' = PyStr(FixedData(probe))
                                   /\ pc' = "send"
                                   /\ UNCHANGED <<probe, detectResult, exitCode, logs>>
    /\ UNCHANGED <<entry, url, headersArg, verbose, sent, responses, ret>>

(* status_code, resp_headers, resp_text = send_request(...), then the sentinel     *)
(* check of the probe and the step to the next probe or the final return False.    *)
(* Unpacking a result that has not three fields raises ValueError.                 *)
ProbeCheck ==
    /\ entry = "main" /\ pc = "unpack"
    /\ IF Len(ret) # 3
          THEN ScanRaised
          ELSE LET status_code == ret[1]
                   resp_text == ret[3]
                   answered == Truthy(status_code) /\ Truthy(resp_text)
                   found == answered /\ Contains(resp_text.l, Sentinel)
               IN  /\ logs' = IF found
                                 THEN Append(logs, Log("WARNING", DetectedMsg(probe)))
                                 ELSE IF answered
                                         THEN Append(logs, Log("INFO", NoVulnMsg(probe)))
                                         ELSE logs
                   /\ IF found
                         THEN /\ detectResult' = "true"
                              /\ pc' = "summary"
                              /\ UNCHANGED probe
                         ELSE IF probe < ProbeCount
                                 THEN /\ probe' = probe + 1
                                      /\ pc' = "merge"
                                      /\ UNCHANGED detectResult
                                 ELSE /\ detectResult' = "false"
                                      /\ pc' = "summary"
                                      /\ UNCHANGED probe
                   /\ UNCHANGED <<callHeaders, callData, exitCode>>
    /\ UNCHANGED <<entry, url, headersArg, verbose, sent, responses, ret>>

---------------------------------------------------------------------------
(* send_request, lines 34-70 *)

(* Where send_request returns to: line 93/118/143 of the scan, or the direct caller. *)
ReturnPoint == IF entry = "main" THEN "unpack" ELSE "returned"

(* return None, None (line 46) *)
BadJsonResult == <<PyNone, PyNone>>

(* return None, None, None (line 67) *)
RequestFailedResult == <<PyNone, PyNone, PyNone>>

UnexpectedErrorResult_Short == <<PyNone, PyNone>>

(* return None, None, None (line 70) *)
UnexpectedErrorResult == <<PyNone, PyNone, PyNone>>

RaisesForStatus_ServerOnly(status) == status >= 500 /\ status < 600

(* response.raise_for_status(): HTTPError for a 4xx or 5xx status. *)
RaisesForStatus(status) == status >= 400 /\ status < 600

(* requests.request prepares the headers with headers.items() when they are truthy. *)
RequestAccepts(h) == ~Truthy(h) \/ h.t = "dict"

(* The verbose log lines written before the request (lines 48-53). *)
SendingLogs(data, h) ==
    IF verbose
       THEN <<Log("INFO", "Sending request to")>>
            \o (IF Truthy(data) THEN <<Log("INFO", "Data")>> ELSE <<>>)
            \o (IF Truthy(h) THEN <<Log("INFO", "Headers")>> ELSE <<>>)
       ELSE <<>>

(* The verbose log lines written after the response (lines 58-61). *)
ReceivedLogs ==
    IF verbose
       THEN <<Log("INFO", "Received response with status code"),
              Log("INFO", "Response headers"), Log("INFO", "Response content")>>
       ELSE <<>>

(* send_request up to the call of requests.request (lines 39-55): truthy headers   *)
(* go through json.loads, which raises TypeError on anything but a string (caught  *)
(* at line 68) and JSONDecodeError on malformed text (caught at line 44).          *)
SendRequestCall ==
    /\ pc = "send"
    /\ LET parsed == json_loads(callHeaders.s)
           headers == IF Truthy(callHeaders) THEN parsed.v ELSE callHeaders
       IN  IF Truthy(callHeaders) /\ callHeaders.t # "str"
              THEN /\ logs' = Append(logs, Log("ERROR", "An unexpected error occurred"))
                   /\ ret' = UnexpectedErrorResult
                   /\ pc' = ReturnPoint
                   /\ UNCHANGED sent
              ELSE IF Truthy(callHeaders) /\ ~parsed.ok
                      THEN /\ logs' = Append(logs,
                                 Log("ERROR", "Invalid JSON format for headers"))
                           /\ ret' = BadJsonResult
                           /\ pc' = ReturnPoint
                           /\ UNCHANGED sent
                      ELSE IF ~RequestAccepts(headers)
                              THEN /\ logs' = (logs \o SendingLogs(callData, headers))
                                         \o <<Log("ERROR", "An unexpected error occurred")>>
                                   /\ ret' = UnexpectedErrorResult
                                   /\ pc' = ReturnPoint
                                   /\ UNCHANGED sent
                              ELSE /\ logs' = logs \o SendingLogs(callData, headers)
                                   /\ sent' = Append(sent,
                                         [probe |-> probe, url |-> url,
                                          data |-> callData, headers |-> headers,
                                          allow_redirects |-> FALSE])
                                   /\ pc' = "await"
                                   /\ UNCHANGED ret
    /\ UNCHANGED <<entry, url, headersArg, verbose, probe, callHeaders, callData,
                   responses, detectResult, exitCode>>

(* The request is answered or fails (lines 55-67): a connection error, a timeout   *)
(* and an error status are RequestExceptions; otherwise the response is returned.  *)
SendRequestResponse ==
    /\ pc = "await"
    /\ \E o \in Outcomes :
          /\ responses' = Append(responses, o)
          /\ IF o.kind # "response" \/ RaisesForStatus(o.status)
                THEN /\ logs' = Append(logs, Log("ERROR", "Request failed"))
                     /\ ret' = RequestFailedResult
                ELSE /\ logs' = logs \o ReceivedLogs
                     /\ ret' = <<PyInt(o.status), PyDict(o.headers), PyText(o.body)>>
    /\ pc' = ReturnPoint
    /\ UNCHANGED <<entry, url, headersArg, verbose, probe, callHeaders, callData,
                   sent, detectResult, exitCode>>

---------------------------------------------------------------------------

Next ==
    \/ MainInvalidUrl
    \/ MainStartScan
    \/ ProbeMerge
    \/ SendRequestCall
    \/ SendRequestResponse
    \/ ProbeCheck
    \/ MainSummary

Spec == Init /\ [][Next]_vars

(* The process has exited, or the direct call has returned. *)
Done == pc \in {"exit", "returned"}

---------------------------------------------------------------------------
(* Vocabulary of the properties *)

EmptyResult == <<PyNone, PyNone, PyNone>>

(* The parse of the URL, read without is_valid_url. *)
UrlRejected ==
    LET r == urlparse(url) IN ~r.ok \/ r.scheme = "" \/ r.netloc = ""

HeadersAbsent == headersArg.t = "NoneType"
HeadersObject == headersArg.t = "str" /\ headersArg.s \in JsonObjects
HeadersMalformed == headersArg.t = "str" /\ headersArg.s \in JsonMalformed

(* detect_http_smuggling has returned its result to main. *)
ScanReturned == entry = "main" /\ detectResult # "none"

Success(o) == o.kind = "response" /\ o.status < 400
ErrorStatus(o) == o.kind = "response" /\ o.status >= 400

CountLogs(msg) == Cardinality({i \in 1..Len(logs) : logs[i].msg = msg})

NoVulnLines ==
    Cardinality({i \in 1..Len(logs) : \E p \in 1..ProbeCount : logs[i].msg = NoVulnMsg(p)})

(* h is exactly fixed overridden by custom. *)
IsMerge(h, fixed, custom) ==
    /\ custom \subseteq h
    /\ \A f \in fixed : f[1] \notin Keys(custom) => f \in h
    /\ \A x \in h : x \in custom \/ (x \in fixed /\ x[1] \notin Keys(custom))

---------------------------------------------------------------------------
(* C1: when every request of the scan is answered successfully with a body that    *)
(* contains the sentinel, detect_http_smuggling returns true after exactly one     *)
(* request, the CL.TE probe's; TE.CL and TE.TE are never sent.                     *)
C1_SentinelEchoStopsAtFirstProbe ==
    ( /\ ScanReturned
      /\ HeadersAbsent \/ HeadersObject
      /\ \A i \in 1..Len(responses) :
            Success(responses[i]) /\ Contains(responses[i].body, Sentinel) )
    => /\ detectResult = "true"
       /\ Len(sent) = 1
       /\ sent[1].probe = 1

(* C2: when every request is answered successfully with a body without the         *)
(* sentinel, the scan sends exactly one request per probe in the order CL.TE,      *)
(* TE.CL, TE.TE, each answered before the next is sent, and returns false.         *)
C2_NoEchoRunsAllThreeProbes ==
    /\ entry = "main" =>
          Len(responses) <= Len(sent) /\ Len(sent) <= Len(responses) + 1
    /\ ( /\ ScanReturned
         /\ HeadersAbsent \/ HeadersObject
         /\ \A i \in 1..Len(responses) :
               Success(responses[i]) /\ ~Contains(responses[i].body, Sentinel) )
       => /\ detectResult = "false"
          /\ Len(sent) = ProbeCount
          /\ Len(responses) = ProbeCount
          /\ \A i \in 1..Len(sent) : sent[i].probe = i

C4_InvalidUrlExitsBeforeNetwork ==
    (entry = "main" /\ UrlRejected)
    => /\ sent = <<>>
       /\ probe = 0
       /\ detectResult = "none"
       /\ pc \in {"main", "exit"}
       /\ pc = "main" => logs = <<>>
       /\ pc = "exit" =>
             /\ exitCode = 1
             /\ logs = <<Log("ERROR", "Invalid URL provided.")>>

C4_Witness ==
    /\ entry = "main" /\ UrlRejected
    /\ urlparse(url).ok /\ urlparse(url).scheme # ""
    /\ pc = "exit"

(* C5: for a valid URL with --headers absent, malformed or a JSON object the       *)
(* process always runs on to its exit, and exits with code 0, found or not; exit   *)
(* code 1 occurs only on a rejected URL or an exception that reached main.         *)
C5_ExitCodes ==
    /\ Done \/ ENABLED Next
    /\ entry = "main" =>
          /\ ( /\ ~UrlRejected
               /\ HeadersAbsent \/ HeadersMalformed \/ HeadersObject
               /\ pc = "exit" )
             => exitCode = 0 /\ ScanReturned
          /\ (pc = "exit" /\ ScanReturned) => exitCode = 0
          /\ exitCode = 1 =>
                UrlRejected \/ CountLogs("An error occurred during the scan") = 1
          /\ pc = "exit" <=> exitCode \in {0, 1}

C5_Witness ==
    /\ entry = "main" /\ ~UrlRejected /\ HeadersObject
    /\ pc = "exit" /\ exitCode = 0 /\ detectResult = "false" /\ probe = ProbeCount

(* C6: send_request returns after at most one request, and every result it gives   *)
(* has three fields, all absent when the request was not answered successfully.    *)
C6_SendRequestResultShape ==
    (entry = "send_request" /\ pc = "returned")
    => /\ Len(sent) <= 1
       /\ Len(ret) = 3
       /\ (responses = <<>> \/ ~Success(responses[Len(responses)])) => ret = EmptyResult

(* C7: given headers as a mapping or as the JSON text of an object and a transport *)
(* that answers successfully, send_request performs exactly one request, without   *)
(* following redirects, carrying those headers, and returns the response's status  *)
(* code, headers and body.                                                         *)
C7_SendRequestSendsGivenHeaders ==
    ( /\ entry = "send_request" /\ pc = "returned"
      /\ callHeaders.t = "dict" \/ (callHeaders.t = "str" /\ callHeaders.s \in JsonObjects)
      /\ \A i \in 1..Len(responses) : Success(responses[i]) )
    => /\ Len(sent) = 1
       /\ Len(responses) = 1
       /\ sent[1].headers.t = "dict"
       /\ sent[1].headers.d =
             (IF callHeaders.t = "dict" THEN callHeaders.d ELSE json_loads(callHeaders.s).v.d)
       /\ ~sent[1].allow_redirects
       /\ ret = <<PyInt(responses[1].status), PyDict(responses[1].headers),
                  PyText(responses[1].body)>>

(* C8: with --headers a JSON object, the request of each probe is sent with the    *)
(* probe's fixed headers overridden by the custom ones.                            *)
C8_ProbeRequestsCarryMergedHeaders ==
    (entry = "main" /\ HeadersObject /\ pc = "unpack")
    => \E i \in 1..Len(sent) :
          /\ sent[i].probe = probe
          /\ IsMerge(sent[i].headers.d, FixedHeaders(probe), json_loads(headersArg.s).v.d)

(* C9: a scan in which all three probes are evaluated and none detects has logged  *)
(* exactly three "No immediate vulnerability detected" lines, one per probe.       *)
C9_ThreeNoVulnerabilityLines ==
    (ScanReturned /\ detectResult = "false" /\ probe = ProbeCount /\ ~HeadersMalformed)
    => /\ NoVulnLines = ProbeCount
       /\ \A p \in 1..ProbeCount : CountLogs(NoVulnMsg(p)) = 1

(* C10: a response with a 4xx or 5xx status makes send_request return the empty    *)
(* result, whatever its body; only a successful response can mark a probe as       *)
(* detected, and a probe that got the empty result leaves the scan undetected and  *)
(* passes on to the next probe (or to the final result false).                     *)
C10_ErrorStatusIsEmptyResult ==
    /\ []( /\ (pc \in {"returned", "unpack"} /\ responses # <<>>
                  /\ ErrorStatus(responses[Len(responses)])) => ret = EmptyResult
           /\ detectResult = "true" =>
                 responses # <<>> /\ Success(responses[Len(responses)]) )
    /\ [][ (entry = "main" /\ pc = "unpack" /\ ret = EmptyResult)
           => /\ detectResult' # "true"
              /\ IF probe < ProbeCount
                    THEN probe' = probe + 1 /\ pc' = "merge"
                    ELSE detectResult' = "false" /\ pc' = "summary" ]_vars

C10_Witness ==
    /\ pc = "returned" /\ responses # <<>>
    /\ ErrorStatus(responses[Len(responses)])
    /\ Contains(responses[Len(responses)].body, Sentinel)
    /\ ret = EmptyResult

====
